---------------------------- MODULE Spec2Model ----------------------------
(***************************************************************************)
(* Partition consumers of sarama-cluster: the forwarding Loop and the      *)
(* two-phase Close of a partitionConsumer, its lock-guarded offset state,   *)
(* the partitionMap registry with its methods and its parallel Stop, and    *)
(* the functions of offsetInfo and int32Slice.                              *)
(*                                                                          *)
(* Goroutines are interleaved at the granularity of the statements that     *)
(* touch shared memory or channels.  The sarama stream (c.pcm) and the      *)
(* application reading the outbound channels are the environment.           *)
(*                                                                          *)
(* A panic ends the goroutine that raised it and is recorded in panicked.   *)
(* The Go runtime then ends the process unless the panic is recovered; the  *)
(* steps of the other goroutines stay enabled here, so a run of the process *)
(* that dies is a prefix of a run of the model, and the fairness            *)
(* conditions speak of goroutines of a process that keeps running.          *)
(***************************************************************************)
EXTENDS Integers, Sequences, FiniteSets, TLC

\* ------------------------------------------------------------------ bounds
NumConsumers == 2   \* partitionConsumers that may exist
NumThreads   == 2   \* application goroutines calling Close / Stop / accessors
MaxCalls     == 2   \* Close calls made on one consumer, by all goroutines
MaxMsgs      == 2   \* messages a stream produces
MaxErrs      == 1   \* errors a stream produces
MaxOffset    == 2   \* offsets passed to the accessors: -1..MaxOffset
MaxElem      == 3   \* partition ids in the slices passed to Diff: 0..MaxElem

Consumers == 1..NumConsumers
Threads   == 1..NumThreads
\* topicPartition keys of the registry: one per consumer
Keys      == 1..NumConsumers

VARIABLES
    created,      \* the consumers newPartitionConsumer has returned
    loopPc,       \* [c] position of Loop: "select", "fwdMsg", "fwdErr", "exited"
    held,         \* [c] the msg / err received by Loop and not yet forwarded (0: none)
    pcmMsgs,      \* [c] content of the channel c.pcm.Messages()
    pcmErrs,      \* [c] content of the channel c.pcm.Errors()
    pcmOpen,      \* [c] the stream's channels are not closed
    produced,     \* [c] <<messages, errors>> the stream has produced so far
    pcmCloses,    \* [c] number of calls of c.pcm.Close() that returned
    pcmErr,       \* [c] the result c.pcm.Close() returns: "nil" or "err"
    stalls,       \* [c] c.pcm.Close() never returns
    closed,       \* [c] c.closed
    seen,         \* [k][c] goroutine k is ordered after a write of c.closed
    dying,        \* [c] number of close(c.dying) executed
    dead,         \* [c] c.dead is closed
    panicked,     \* a goroutine panicked (close of a closed channel)
    delivered,    \* [c] messages sent on the outbound messages channel
    deliveredErrs,\* [c] errors sent on the outbound errors channel
    lateSends,    \* [c] a send happened after some Close of c had returned
    closePc,      \* [k][c] position of goroutine k's Close call on c
    closeErr,     \* [k][c] the local err of that call
    rets,         \* [k][c] results of the Close calls of k on c that returned
    stopPc,       \* [k] position of goroutine k's Stop call
    wg,           \* [k] the WaitGroup counter of that Stop call
    data,         \* [key] m.data: the consumer stored under the key (0: none)
    readers,      \* number of read locks held on m.mutex
    writer,       \* the write lock of m.mutex is held
    offset,       \* [c] c.state.Info.Offset
    pending,      \* [c] the keys of the map c.state.Info.PendingOffsets
    metadata,     \* [c] c.state.Info.Metadata, a sequence of characters
    dirty,        \* [c] c.state.Dirty
    mutex,        \* [c] the goroutine holding c.mutex (0: unlocked)
    acc,          \* [k] the state accessor goroutine k is inside of
    lastAcc,      \* the state accessor call that completed last
    unacked,      \* [c] an update of the ledger since the last MarkCommitted
    reg,          \* [k] the registry operation goroutine k is inside of
    lastReg,      \* the registry operation that returned last, its result
    snap,         \* [key] the map the last Snapshot returned
    stored,       \* [key] the consumer stored by the last completed Store / Clear
    args,         \* the arguments of a call of a function without shared state
    out           \* the result of that call

vars == << created, loopPc, held, pcmMsgs, pcmErrs, pcmOpen, produced,
           pcmCloses, pcmErr, stalls, closed, seen, dying, dead, panicked,
           delivered, deliveredErrs, lateSends, closePc, closeErr, rets,
           stopPc, wg, data, readers, writer, offset, pending, metadata,
           dirty, mutex, acc, lastAcc, unacked, reg, lastReg, snap, stored,
           args, out >>

streamVars == << pcmMsgs, pcmErrs, pcmOpen, produced, pcmCloses >>
loopVars   == << loopPc, held, dead, delivered, deliveredErrs, lateSends >>
closeVars  == << closed, seen, dying, closePc, closeErr, rets >>
stopVars   == << stopPc, wg >>
mapVars    == << data, readers, writer >>
stateVars  == << offset, pending, metadata, dirty, mutex, acc, lastAcc, unacked >>
liveVars   == << streamVars, loopVars, closeVars, stopVars, panicked >>
fixedVars  == << created, pcmErr, stalls >>
regVars    == << reg, lastReg, snap, stored >>
pureVars   == << args, out >>

\* ------------------------------------------------------------------ offsetInfo
\* A string is a sequence of one-character strings; "" is << >>.
Digits == <<"0", "1", "2", "3", "4", "5", "6", "7", "8", "9">>

DigitVal(ch) == (CHOOSE i \in 1..10 : Digits[i] = ch) - 1

IsDigit(ch) == \E i \in 1..10 : Digits[i] = ch

\* strconv.FormatInt(n, 10)
RECURSIVE FormatNat(_)
FormatNat(n) ==
    IF n < 10 THEN <<Digits[n + 1]>>
    ELSE FormatNat(n \div 10) \o <<Digits[(n % 10) + 1]>>

FormatInt(n) == IF n < 0 THEN <<"-">> \o FormatNat(-n) ELSE FormatNat(n)

\* strconv.ParseInt(tok, 10, 64): [ok, val]; a token that is not an
\* optionally signed run of digits is an error.
RECURSIVE ParseNat(_, _)
ParseNat(tok, a) ==
    IF tok = << >> THEN a
    ELSE ParseNat(Tail(tok), 10 * a + DigitVal(Head(tok)))

ParseInt(tok) ==
    LET signed == tok # << >> /\ Head(tok) \in {"-", "+"}
        body == IF signed THEN Tail(tok) ELSE tok
    IN  IF body = << >> \/ \E i \in 1..Len(body) : ~IsDigit(body[i])
        THEN [ok |-> FALSE, val |-> 0]
        ELSE [ok |-> TRUE,
              val |-> IF signed /\ Head(tok) = "-"
                      THEN -ParseNat(body, 0) ELSE ParseNat(body, 0)]

\* strings.Split(str, ","): the tokens between the commas, "" included.
RECURSIVE Split(_, _)
Split(str, tok) ==
    IF str = << >> THEN <<tok>>
    ELSE IF Head(str) = "," THEN <<tok>> \o Split(Tail(str), << >>)
    ELSE Split(Tail(str), Append(tok, Head(str)))

\* offsetInfo.Serialize: the metadata strings it may build from the pending
\* set, one per iteration order of the map.
RECURSIVE Serialize(_)
Serialize(pend) ==
    IF pend = {} THEN {<< >>}
    ELSE UNION {{FormatInt(x) \o <<",">> \o rest : rest \in Serialize(pend \ {x})}
                   : x \in pend}

\* offsetInfo.Deserialize: the keys it adds to the map PendingOffsets.
Deserialize(meta) ==
    LET parts == Split(meta, << >>)
    IN  {ParseInt(parts[i]).val :
            i \in {j \in 1..Len(parts) : parts[j] # << >> /\ ParseInt(parts[j]).ok}}

\* A resume offset that ignores the pending set.
NextOffsetConfirmed(off, pend, fallback) ==
    IF off > -1 THEN {off} ELSE {fallback}

\* offsetInfo.NextOffset, lines 78-87: the offsets it may return; the member
\* of a non-empty pending set is the first key of a map iteration, any key.
NextOffset(off, pend, fallback) ==
    IF off > -1
    THEN IF Cardinality(pend) > 0 THEN pend ELSE {off}
    ELSE {fallback}

\* The metadata strings the application passes to MarkOffset: "", "1," and
\* "x,2," (one malformed token).
Metas == {<< >>, <<"1", ",">>, <<"x", ",", "2", ",">>}

Offsets == -1..MaxOffset

\* No accessor call.
NoAcc == [op |-> "none", c |-> 0, o |-> 0, m |-> << >>]

\* No entry under a key of a map of partitionStates.
NoEntry == [c |-> 0, Offset |-> -1, PendingOffsets |-> {}, Metadata |-> << >>,
            Dirty |-> FALSE]

NoSnap == [key \in Keys |-> NoEntry]

\* No registry operation: op is the method, pc its position ("wlock": blocked
\* in m.mutex.Lock(); "locked": holding the lock), key and c its arguments,
\* todo the keys its range loop has not visited, part the map it builds,
\* stable whether no dirty flag changed since it began.
NoReg == [op |-> "none", pc |-> "idle", key |-> 0, c |-> 0, todo |-> {},
          part |-> NoSnap, stable |-> TRUE]

\* No returned registry operation: c, dirty, keys are the results of Fetch,
\* HasDirty and Info.
NoRet == [op |-> "none", key |-> 0, c |-> 0, dirty |-> FALSE,
          keys |-> << >>, stable |-> TRUE]

\* No registry operation is running or has returned; stored is the content
\* the registry was built with.
NoRegistryCall ==
    /\ reg = [k \in Threads |-> NoReg]
    /\ lastReg = NoRet
    /\ snap = NoSnap
    /\ stored = data

\* ------------------------------------------------------------------ int32Slice
\* A search closure that misses equal elements.
Above(v, x) == v > x

\* The closure passed to sort.Search, line 99: o[i] >= x.
AtLeast(v, x) == v >= x

\* sort.Search(n, f): the smallest index in i..j (indices from 0) at which f
\* holds, found by bisection.
RECURSIVE Search(_, _, _, _)
Search(o, x, i, j) ==
    IF i < j
    THEN LET h == (i + j) \div 2
         IN  IF ~AtLeast(o[h + 1], x)
             THEN Search(o, x, h + 1, j)
             ELSE Search(o, x, i, h)
    ELSE i

\* int32Slice.Diff, lines 97-105.
RECURSIVE Diff(_, _)
Diff(p, o) ==
    IF p = << >> THEN << >>
    ELSE LET x == Head(p)
             on == Len(o)
             n == Search(o, x, 0, on)
         IN  IF n < on /\ o[n + 1] = x
             THEN Diff(Tail(p), o)
             ELSE <<x>> \o Diff(Tail(p), o)

\* The ascending sequence of the members of a set of integers.
RECURSIVE Ascending(_)
Ascending(S) ==
    IF S = {} THEN << >>
    ELSE LET least == CHOOSE x \in S : \A y \in S : x <= y
         IN  <<least>> \o Ascending(S \ {least})

\* The ascending deduplicated slices of partition ids.
Slices == {Ascending(S) : S \in SUBSET (0..MaxElem)}

\* ------------------------------------------------- calls without shared state
NoArgs == [fn |-> "none", Offset |-> -1, PendingOffsets |-> {}, fallback |-> -1,
           resp |-> << >>, p |-> << >>, o |-> << >>]

NoOut == [done |-> FALSE, val |-> 0, requests |-> << >>, err |-> "nil",
          consumer |-> FALSE, Offset |-> -1, res |-> << >>]

\* The fallback offsets a caller passes: the provider's marks for the oldest
\* and the newest offset (negative), and offset 0.
Fallbacks == -2..0

\* What manager.ConsumePartition answers to a request.
Responses == {"nil", "ErrOffsetOutOfRange", "err"}

\* A construction that retries without resetting the confirmed offset.
newPartitionConsumerKeepsOffset(off, pend, def, resp) ==
    {LET retry == resp[1] = "ErrOffsetOutOfRange"
         err == IF retry THEN resp[2] ELSE resp[1]
     IN  [requests |-> IF retry THEN <<n, def>> ELSE <<n>>,
          err |-> err,
          consumer |-> err = "nil",
          Offset |-> off]
       : n \in (IF off > -1 THEN IF pend # {} THEN pend ELSE {off} ELSE {def})}

\* newPartitionConsumer, lines 21-38, on the ledger (off, pend), the fallback
\* def and the provider's answers resp to the first and to a second request:
\* the requests made, the error returned, whether a consumer is returned, and
\* the confirmed offset of the ledger it holds.
newPartitionConsumer(off, pend, def, resp) ==
    {LET retry == resp[1] = "ErrOffsetOutOfRange"
         err == IF retry THEN resp[2] ELSE resp[1]
     IN  [requests |-> IF retry THEN <<n, def>> ELSE <<n>>,
          err |-> err,
          consumer |-> err = "nil",
          Offset |-> IF retry THEN -1 ELSE off]
       : n \in NextOffset(off, pend, def)}

\* No call of such a function.
NoPureCall == args = NoArgs /\ out = NoOut

\* offsetInfo.NextOffset is called on the arguments.
CallNextOffset ==
    /\ args.fn = "NextOffset" /\ ~out.done
    /\ \E v \in NextOffset(args.Offset, args.PendingOffsets, args.fallback) :
          out' = [NoOut EXCEPT !.done = TRUE, !.val = v]
    /\ UNCHANGED << liveVars, fixedVars, mapVars, stateVars, regVars, args >>

\* newPartitionConsumer is called on the arguments.
CallNewPartitionConsumer ==
    /\ args.fn = "newPartitionConsumer" /\ ~out.done
    /\ \E r \in newPartitionConsumer(args.Offset, args.PendingOffsets,
                                       args.fallback, args.resp) :
          out' = [NoOut EXCEPT !.done = TRUE, !.requests = r.requests,
                               !.err = r.err, !.consumer = r.consumer,
                               !.Offset = r.Offset]
    /\ UNCHANGED << liveVars, fixedVars, mapVars, stateVars, regVars, args >>

\* int32Slice.Diff is called on the arguments.
CallDiff ==
    /\ args.fn = "Diff" /\ ~out.done
    /\ out' = [NoOut EXCEPT !.done = TRUE, !.res = Diff(args.p, args.o)]
    /\ UNCHANGED << liveVars, fixedVars, mapVars, stateVars, regVars, args >>

\* The calls made: every ledger with offsets of -1..MaxOffset, every fallback
\* and every pair of answers of the provider; every pair of slices.
PureArgs ==
    {[NoArgs EXCEPT !.fn = "NextOffset", !.Offset = off,
                    !.PendingOffsets = pend, !.fallback = fb] :
        off \in Offsets, pend \in SUBSET (0..MaxOffset), fb \in Fallbacks}
    \cup {[NoArgs EXCEPT !.fn = "newPartitionConsumer", !.Offset = off,
                         !.PendingOffsets = pend, !.fallback = fb,
                         !.resp = resp] :
              off \in Offsets, pend \in SUBSET (0..MaxOffset),
              fb \in Fallbacks, resp \in Responses \X Responses}
    \cup {[NoArgs EXCEPT !.fn = "Diff", !.p = p, !.o = o] :
              p \in Slices, o \in Slices}

\* ------------------------------------------------------------ partitionConsumer
\* The last n of the items 1..total of a stream, n = 0 or 1: what may be
\* queued in the stream's channel.
Queued(total) == {<< >>} \cup {<<total>> : x \in {y \in {total} : y > 0}}

\* newPartitionConsumer, lines 32-38: the fields of a consumer, its Loop
\* started; past[c] = <<messages, errors>> its stream has produced.
InitConsumersAt(past) ==
    /\ loopPc = [c \in Consumers |-> "select"]
    /\ held = [c \in Consumers |-> 0]
    /\ produced = past
    /\ pcmMsgs \in [Consumers -> UNION {Queued(past[c][1]) : c \in Consumers}]
    /\ pcmErrs \in [Consumers -> UNION {Queued(past[c][2]) : c \in Consumers}]
    /\ \A c \in Consumers : pcmMsgs[c] \in Queued(past[c][1])
    /\ \A c \in Consumers : pcmErrs[c] \in Queued(past[c][2])
    /\ delivered = [c \in Consumers |->
                       [i \in 1..(past[c][1] - Len(pcmMsgs[c])) |-> i]]
    /\ deliveredErrs = [c \in Consumers |->
                       [i \in 1..(past[c][2] - Len(pcmErrs[c])) |-> i]]
    /\ pcmOpen = [c \in Consumers |-> TRUE]
    /\ pcmCloses = [c \in Consumers |-> 0]
    /\ closed = [c \in Consumers |-> FALSE]
    /\ seen = [k \in Threads |-> [c \in Consumers |-> FALSE]]
    /\ dying = [c \in Consumers |-> 0]
    /\ dead = [c \in Consumers |-> FALSE]
    /\ panicked = FALSE
    /\ lateSends = [c \in Consumers |-> FALSE]
    /\ closePc = [k \in Threads |-> [c \in Consumers |-> "idle"]]
    /\ closeErr = [k \in Threads |-> [c \in Consumers |-> "nil"]]
    /\ rets = [k \in Threads |-> [c \in Consumers |-> << >>]]
    /\ stopPc = [k \in Threads |-> "idle"]
    /\ wg = [k \in Threads |-> 0]
    /\ readers = 0
    /\ writer = FALSE
    /\ offset = [c \in Consumers |-> -1]
    /\ pending = [c \in Consumers |-> {}]
    /\ metadata = [c \in Consumers |-> << >>]
    /\ dirty = [c \in Consumers |-> FALSE]
    /\ mutex = [c \in Consumers |-> 0]
    /\ acc = [k \in Threads |-> NoAcc]
    /\ lastAcc = NoAcc
    /\ unacked = [c \in Consumers |-> FALSE]

\* The Close calls made on c so far: those that returned and those running.
CallsOn(c) ==
    LET n[k \in 0..NumThreads] ==
            IF k = 0 THEN 0
            ELSE n[k - 1] + Len(rets[k][c])
                          + (IF closePc[k][c] # "idle" THEN 1 ELSE 0)
    IN  n[NumThreads]

\* Some Close call on c has returned.
CloseReturned(c) == \E k \in Threads : rets[k][c] # << >>

\* The stream puts its next message into Messages().
StreamMsg(c) ==
    /\ c \in created
    /\ pcmOpen[c] /\ produced[c][1] < MaxMsgs
    /\ produced' = [produced EXCEPT ![c][1] = @ + 1]
    /\ pcmMsgs' = [pcmMsgs EXCEPT ![c] = Append(@, produced[c][1] + 1)]
    /\ UNCHANGED << pcmErrs, pcmOpen, pcmCloses >>
    /\ UNCHANGED << loopVars, closeVars, stopVars, fixedVars, regVars, pureVars, mapVars, stateVars, panicked >>

\* The stream puts its next error into Errors().
StreamErr(c) ==
    /\ c \in created
    /\ pcmOpen[c] /\ produced[c][2] < MaxErrs
    /\ produced' = [produced EXCEPT ![c][2] = @ + 1]
    /\ pcmErrs' = [pcmErrs EXCEPT ![c] = Append(@, produced[c][2] + 1)]
    /\ UNCHANGED << pcmMsgs, pcmOpen, pcmCloses >>
    /\ UNCHANGED << loopVars, closeVars, stopVars, fixedVars, regVars, pureVars, mapVars, stateVars, panicked >>

\* A receive that takes the newest queued message instead of the oldest.
LoopRecvNewest(c) ==
    /\ c \in created
    /\ loopPc[c] = "select" /\ pcmMsgs[c] # << >>
    /\ held' = [held EXCEPT ![c] = pcmMsgs[c][Len(pcmMsgs[c])]]
    /\ pcmMsgs' = [pcmMsgs EXCEPT ![c] = SubSeq(@, 1, Len(@) - 1)]
    /\ loopPc' = [loopPc EXCEPT ![c] = "fwdMsg"]
    /\ UNCHANGED << pcmErrs, pcmOpen, produced, pcmCloses >>
    /\ UNCHANGED << dead, delivered, deliveredErrs, lateSends >>
    /\ UNCHANGED << closeVars, stopVars, fixedVars, regVars, pureVars, mapVars, stateVars, panicked >>

\* Loop, line 46: a message is received from c.pcm.Messages().
LoopRecvMsg(c) ==
    /\ c \in created
    /\ loopPc[c] = "select" /\ pcmMsgs[c] # << >>
    /\ held' = [held EXCEPT ![c] = Head(pcmMsgs[c])]
    /\ pcmMsgs' = [pcmMsgs EXCEPT ![c] = Tail(@)]
    /\ loopPc' = [loopPc EXCEPT ![c] = "fwdMsg"]
    /\ UNCHANGED << pcmErrs, pcmOpen, produced, pcmCloses >>
    /\ UNCHANGED << dead, delivered, deliveredErrs, lateSends >>
    /\ UNCHANGED << closeVars, stopVars, fixedVars, regVars, pureVars, mapVars, stateVars, panicked >>

\* Loop's return: the deferred close(c.dead) runs.
LoopExit(c) ==
    /\ loopPc' = [loopPc EXCEPT ![c] = "exited"]
    /\ held' = [held EXCEPT ![c] = 0]
    /\ dead' = [dead EXCEPT ![c] = TRUE]
    /\ UNCHANGED << delivered, deliveredErrs, lateSends >>
    /\ UNCHANGED << streamVars, closeVars, stopVars, fixedVars, regVars, pureVars, mapVars, stateVars, panicked >>

\* Loop, lines 46-49: Messages() is closed and drained.
LoopMsgsClosed(c) ==
    /\ c \in created
    /\ loopPc[c] = "select" /\ pcmMsgs[c] = << >> /\ ~pcmOpen[c]
    /\ LoopExit(c)

\* Loop, line 51: the held message is sent on the outbound channel.
LoopFwdMsg(c) ==
    /\ c \in created
    /\ loopPc[c] = "fwdMsg"
    /\ delivered' = [delivered EXCEPT ![c] = Append(@, held[c])]
    /\ lateSends' = [lateSends EXCEPT ![c] = @ \/ CloseReturned(c)]
    /\ held' = [held EXCEPT ![c] = 0]
    /\ loopPc' = [loopPc EXCEPT ![c] = "select"]
    /\ UNCHANGED << dead, deliveredErrs >>
    /\ UNCHANGED << streamVars, closeVars, stopVars, fixedVars, regVars, pureVars, mapVars, stateVars, panicked >>

\* Loop, line 55: an error is received from c.pcm.Errors().
LoopRecvErr(c) ==
    /\ c \in created
    /\ loopPc[c] = "select" /\ pcmErrs[c] # << >>
    /\ held' = [held EXCEPT ![c] = Head(pcmErrs[c])]
    /\ pcmErrs' = [pcmErrs EXCEPT ![c] = Tail(@)]
    /\ loopPc' = [loopPc EXCEPT ![c] = "fwdErr"]
    /\ UNCHANGED << pcmMsgs, pcmOpen, produced, pcmCloses >>
    /\ UNCHANGED << dead, delivered, deliveredErrs, lateSends >>
    /\ UNCHANGED << closeVars, stopVars, fixedVars, regVars, pureVars, mapVars, stateVars, panicked >>

\* Loop, lines 55-58: Errors() is closed and drained.
LoopErrsClosed(c) ==
    /\ c \in created
    /\ loopPc[c] = "select" /\ pcmErrs[c] = << >> /\ ~pcmOpen[c]
    /\ LoopExit(c)

\* A forward of an error after which Loop returns.
LoopFwdErrReturn(c) ==
    /\ c \in created
    /\ loopPc[c] = "fwdErr"
    /\ deliveredErrs' = [deliveredErrs EXCEPT ![c] = Append(@, held[c])]
    /\ lateSends' = [lateSends EXCEPT ![c] = @ \/ CloseReturned(c)]
    /\ held' = [held EXCEPT ![c] = 0]
    /\ loopPc' = [loopPc EXCEPT ![c] = "exited"]
    /\ dead' = [dead EXCEPT ![c] = TRUE]
    /\ UNCHANGED delivered
    /\ UNCHANGED << streamVars, closeVars, stopVars, fixedVars, regVars, pureVars, mapVars, stateVars, panicked >>

\* Loop, line 60: the held error is sent on the outbound channel.
LoopFwdErr(c) ==
    /\ c \in created
    /\ loopPc[c] = "fwdErr"
    /\ deliveredErrs' = [deliveredErrs EXCEPT ![c] = Append(@, held[c])]
    /\ lateSends' = [lateSends EXCEPT ![c] = @ \/ CloseReturned(c)]
    /\ held' = [held EXCEPT ![c] = 0]
    /\ loopPc' = [loopPc EXCEPT ![c] = "select"]
    /\ UNCHANGED << dead, delivered >>
    /\ UNCHANGED << streamVars, closeVars, stopVars, fixedVars, regVars, pureVars, mapVars, stateVars, panicked >>

\* A Loop whose sends do not race against dying.
LoopWaitsOuter == {"select"}

\* The positions of Loop at which it waits on <-c.dying.
LoopWaits == {"select", "fwdMsg", "fwdErr"}

\* Loop, lines 52, 61, 64: <-c.dying is ready in the select Loop waits on.
LoopDying(c) ==
    /\ c \in created
    /\ loopPc[c] \in LoopWaits /\ dying[c] > 0
    /\ LoopExit(c)

\* A Close call of goroutine k on c returns r; a task of Stop calls wg.Done().
CloseReturn(k, c, r) ==
    /\ rets' = [rets EXCEPT ![k][c] = Append(@, r)]
    /\ closePc' = [closePc EXCEPT ![k][c] = "idle"]
    /\ wg' = [wg EXCEPT ![k] = IF stopPc[k] = "waiting" THEN @ - 1 ELSE @]
    /\ UNCHANGED stopPc

\* The application calls c.Close() in goroutine k.
CloseCall(k, c) ==
    /\ c \in created
    /\ stopPc[k] = "idle" /\ acc[k] = NoAcc /\ reg[k].op = "none"
    /\ \A d \in Consumers : closePc[k][d] = "idle"
    /\ CallsOn(c) < MaxCalls
    /\ closePc' = [closePc EXCEPT ![k][c] = "check"]
    /\ UNCHANGED << closed, seen, dying, closeErr, rets >>
    /\ UNCHANGED << streamVars, loopVars, stopVars, fixedVars, regVars, pureVars, mapVars, stateVars, panicked >>

\* What the unsynchronised read of c.closed in goroutine k may yield: the
\* field is written and read without a lock, so a goroutine that is not
\* ordered after a write may still read the old value.
ReadClosed(k, c) == IF seen[k][c] THEN {closed[c]} ELSE {closed[c], FALSE}

\* Close, lines 71-73: the closed guard.
CloseCheck(k, c) ==
    /\ c \in created
    /\ closePc[k][c] = "check"
    /\ \E v \in ReadClosed(k, c) :
         IF v
         THEN /\ CloseReturn(k, c, "nil")
              /\ seen' = [seen EXCEPT ![k][c] = TRUE]
         ELSE /\ closePc' = [closePc EXCEPT ![k][c] = "pcmClose"]
              /\ UNCHANGED << seen, rets, stopVars >>
    /\ UNCHANGED << closed, dying, closeErr >>
    /\ UNCHANGED << streamVars, loopVars, fixedVars, regVars, pureVars, mapVars, stateVars, panicked >>

\* Close, line 75: err := c.pcm.Close(); the stream closes its channels.
ClosePcm(k, c) ==
    /\ c \in created
    /\ closePc[k][c] = "pcmClose" /\ ~stalls[c]
    /\ pcmOpen' = [pcmOpen EXCEPT ![c] = FALSE]
    /\ pcmCloses' = [pcmCloses EXCEPT ![c] = @ + 1]
    /\ closeErr' = [closeErr EXCEPT ![k][c] = pcmErr[c]]
    /\ closePc' = [closePc EXCEPT ![k][c] = "setClosed"]
    /\ UNCHANGED << pcmMsgs, pcmErrs, produced >>
    /\ UNCHANGED << closed, seen, dying, rets >>
    /\ UNCHANGED << loopVars, stopVars, fixedVars, regVars, pureVars, mapVars, stateVars, panicked >>

\* Close, line 76: c.closed = true.
CloseSetClosed(k, c) ==
    /\ c \in created
    /\ closePc[k][c] = "setClosed"
    /\ closed' = [closed EXCEPT ![c] = TRUE]
    /\ seen' = [seen EXCEPT ![k][c] = TRUE]
    /\ closePc' = [closePc EXCEPT ![k][c] = "closeDying"]
    /\ UNCHANGED << dying, closeErr, rets >>
    /\ UNCHANGED << streamVars, loopVars, stopVars, fixedVars, regVars, pureVars, mapVars, stateVars, panicked >>

\* Close, line 77: close(c.dying).  Closing a closed channel panics: the
\* panic unwinds the calling goroutine, whose call never returns.
CloseDying(k, c) ==
    /\ c \in created
    /\ closePc[k][c] = "closeDying"
    /\ dying' = [dying EXCEPT ![c] = @ + 1]
    /\ panicked' = (panicked \/ dying[c] > 0)
    /\ closePc' = [closePc EXCEPT ![k][c] =
                      IF dying[c] > 0 THEN "panic" ELSE "waitDead"]
    /\ UNCHANGED << closed, seen, closeErr, rets >>
    /\ UNCHANGED << streamVars, loopVars, stopVars, fixedVars, regVars, pureVars, mapVars, stateVars >>

\* Close, lines 78-80: <-c.dead, then return err.
CloseWaitDead(k, c) ==
    /\ c \in created
    /\ closePc[k][c] = "waitDead" /\ dead[c]
    /\ CloseReturn(k, c, closeErr[k][c])
    /\ UNCHANGED << closed, seen, dying, closeErr >>
    /\ UNCHANGED << streamVars, loopVars, fixedVars, regVars, pureVars, mapVars, stateVars, panicked >>

\* ------------------------------------------- partitionConsumer state accessors
\* c.mutex.Lock() of State, MarkCommitted and MarkOffset (lines 88, 106, 130):
\* goroutine k enters the accessor a.
AccLock(k, a) ==
    /\ a.c \in created
    /\ acc[k] = NoAcc /\ mutex[a.c] = 0 /\ reg[k].op = "none"
    /\ stopPc[k] # "waiting" /\ \A d \in Consumers : closePc[k][d] = "idle"
    /\ mutex' = [mutex EXCEPT ![a.c] = k]
    /\ acc' = [acc EXCEPT ![k] = a]
    /\ UNCHANGED << offset, pending, metadata, dirty, lastAcc, unacked >>
    /\ UNCHANGED << liveVars, fixedVars, regVars, pureVars, mapVars >>

StateLock(k, c) ==
    AccLock(k, [op |-> "State", c |-> c, o |-> 0, m |-> << >>])

MarkCommittedLock(k, c, o) ==
    AccLock(k, [op |-> "MarkCommitted", c |-> c, o |-> o, m |-> << >>])

MarkOffsetLock(k, c, o, m) ==
    AccLock(k, [op |-> "MarkOffset", c |-> c, o |-> o, m |-> m])

\* c.mutex.Unlock() and the return of the accessor goroutine k is inside of.
AccUnlock(k) ==
    /\ mutex' = [mutex EXCEPT ![acc[k].c] = 0]
    /\ lastAcc' = acc[k]
    /\ acc' = [acc EXCEPT ![k] = NoAcc]

\* State, lines 89-98: the states it may return for consumer c.  The copy
\* shares the map PendingOffsets with c.state.
StateResults(c) ==
    IF metadata[c] = << >>
    THEN {[Offset |-> offset[c], PendingOffsets |-> pending[c],
           Metadata |-> meta, Dirty |-> dirty[c]] : meta \in Serialize(pending[c])}
    ELSE {[Offset |-> offset[c],
           PendingOffsets |-> IF pending[c] = {}
                              THEN Deserialize(metadata[c]) ELSE pending[c],
           Metadata |-> metadata[c], Dirty |-> dirty[c]]}

\* State, lines 89-98: Deserialize writes into the map the copy shares with
\* c.state, so the parsed offsets are stored.
State(k) ==
    /\ acc[k].op = "State"
    /\ LET c == acc[k].c
       IN  pending' = [pending EXCEPT ![c] =
                          IF metadata[c] # << >> /\ pending[c] = {}
                          THEN Deserialize(metadata[c]) ELSE @]
    /\ AccUnlock(k)
    /\ UNCHANGED << offset, metadata, dirty, unacked >>
    /\ UNCHANGED << liveVars, fixedVars, regVars, pureVars, mapVars >>

\* The registry operations after the dirty flag of c became d: a HasDirty
\* that is running has seen the flags change.
RegAfterDirty(c, d) ==
    [j \in Threads |->
        IF reg[j].op = "HasDirty" /\ d # dirty[c]
        THEN [reg[j] EXCEPT !.stable = FALSE] ELSE reg[j]]

\* A commit check that also accepts an older offset.
CommitsOlder(o, cur, meta) == o <= cur \/ meta # << >>

\* MarkCommitted, line 107: the commit of offset o clears dirty.
Commits(o, cur, meta) == o = cur \/ meta # << >>

\* MarkCommitted, lines 107-110.
MarkCommitted(k) ==
    /\ acc[k].op = "MarkCommitted"
    /\ LET c == acc[k].c
           d == IF Commits(acc[k].o, offset[c], metadata[c])
                THEN FALSE ELSE dirty[c]
       IN  /\ dirty' = [dirty EXCEPT ![c] = d]
           /\ unacked' = [unacked EXCEPT ![c] = FALSE]
           /\ reg' = RegAfterDirty(c, d)
    /\ AccUnlock(k)
    /\ UNCHANGED << offset, pending, metadata >>
    /\ UNCHANGED << liveVars, fixedVars, pureVars, mapVars >>
    /\ UNCHANGED << lastReg, snap, stored >>

\* An advance check that also accepts the confirmed offset itself.
ExceedsOrEquals(o, cur) == o >= cur

\* MarkOffset, line 131: offset o advances the confirmed offset.
Exceeds(o, cur) == o > cur

\* MarkOffset, lines 131-139.
MarkOffset(k) ==
    /\ acc[k].op = "MarkOffset"
    /\ LET c == acc[k].c
           advance == Exceeds(acc[k].o, offset[c])
       IN  /\ offset' = [offset EXCEPT ![c] = IF advance THEN acc[k].o ELSE @]
           /\ metadata' = [metadata EXCEPT ![c] =
                              IF advance /\ acc[k].m # << >> THEN acc[k].m ELSE @]
           /\ dirty' = [dirty EXCEPT ![c] = IF advance THEN TRUE ELSE @]
           /\ unacked' = [unacked EXCEPT ![c] = @ \/ advance]
           /\ reg' = RegAfterDirty(c, IF advance THEN TRUE ELSE dirty[c])
    /\ AccUnlock(k)
    /\ UNCHANGED pending
    /\ UNCHANGED << liveVars, fixedVars, pureVars, mapVars >>
    /\ UNCHANGED << lastReg, snap, stored >>

\* Goroutine k is not inside a call.
Idle(k) ==
    /\ acc[k] = NoAcc /\ reg[k].op = "none"
    /\ stopPc[k] # "waiting" /\ \A d \in Consumers : closePc[k][d] = "idle"

\* AddPendingOffset, line 114: some goroutine writes the map, without the
\* mutex.
AddPendingOffset(c, o) ==
    /\ c \in created
    /\ \E k \in Threads : Idle(k)
    /\ pending' = [pending EXCEPT ![c] = @ \cup {o}]
    /\ unacked' = [unacked EXCEPT ![c] = @ \/ o \notin pending[c]]
    /\ UNCHANGED << offset, metadata, dirty, mutex, acc, lastAcc >>
    /\ UNCHANGED << liveVars, fixedVars, regVars, pureVars, mapVars >>

\* RemovePendingOffset, line 122: some goroutine writes the map, without
\* the mutex.
RemovePendingOffset(c, o) ==
    /\ c \in created
    /\ \E k \in Threads : Idle(k)
    /\ pending' = [pending EXCEPT ![c] = @ \ {o}]
    /\ unacked' = [unacked EXCEPT ![c] = @ \/ o \in pending[c]]
    /\ UNCHANGED << offset, metadata, dirty, mutex, acc, lastAcc >>
    /\ UNCHANGED << liveVars, fixedVars, regVars, pureVars, mapVars >>

\* ----------------------------------------------------------------- partitionMap
\* The consumers the registry holds.
Held == {data[key] : key \in Keys} \ {0}

\* A read lock that ignores the writers.
CanRLockAlways == TRUE

\* m.mutex.RLock() can return: no writer holds the lock and none is blocked
\* in Lock() (a blocked writer holds back the readers that come after it).
CanRLock == ~writer /\ \A j \in Threads : reg[j].pc # "wlock"

\* m.mutex.Lock() can return.
CanLock == ~writer /\ readers = 0

\* Stop, lines 199-209: RLock, then one goroutine per entry, each counted in
\* the WaitGroup before it starts.
StopCall(k) ==
    /\ stopPc[k] = "idle" /\ CanRLock
    /\ acc[k] = NoAcc /\ reg[k].op = "none"
    /\ \A c \in Consumers : closePc[k][c] = "idle" /\ CallsOn(c) < MaxCalls
    /\ readers' = readers + 1
    /\ stopPc' = [stopPc EXCEPT ![k] = "waiting"]
    /\ wg' = [wg EXCEPT ![k] = Cardinality({key \in Keys : data[key] # 0})]
    /\ closePc' = [closePc EXCEPT ![k] =
                      [c \in Consumers |-> IF c \in Held THEN "check" ELSE "idle"]]
    /\ UNCHANGED << closed, seen, dying, closeErr, rets >>
    /\ UNCHANGED << streamVars, loopVars, fixedVars, regVars, pureVars, data, writer, panicked >>
    /\ UNCHANGED stateVars

\* Stop, lines 210-211: wg.Wait() returns, the deferred RUnlock runs.
StopReturn(k) ==
    /\ stopPc[k] = "waiting" /\ wg[k] = 0
    /\ stopPc' = [stopPc EXCEPT ![k] = "returned"]
    /\ readers' = readers - 1
    /\ UNCHANGED << wg, data, writer >>
    /\ UNCHANGED << streamVars, loopVars, closeVars, fixedVars, regVars, pureVars, panicked >>
    /\ UNCHANGED stateVars

\* Goroutine k can call a method of the registry.
Free(k) == Idle(k) /\ stopPc[k] = "idle"

\* The keys that have an entry in m.data.
Stored == {key \in Keys : data[key] # 0}

\* The frame of a registry operation that calls no accessor.
RegFrame ==
    /\ UNCHANGED << liveVars, fixedVars, pureVars, stateVars >>

\* What pc.State() does to the ledger of c when a registry operation calls
\* it (lines 88-96); c.mutex is taken and released within the call.
StateCalled(c) ==
    /\ mutex[c] = 0
    /\ pending' = [pending EXCEPT ![c] =
                      IF metadata[c] # << >> /\ pending[c] = {}
                      THEN Deserialize(metadata[c]) ELSE @]
    /\ UNCHANGED << offset, metadata, dirty, mutex, acc, lastAcc, unacked >>

\* Fetch, line 163.
FetchLock(k, key) ==
    /\ Free(k) /\ CanRLock
    /\ readers' = readers + 1
    /\ reg' = [reg EXCEPT ![k] = [NoReg EXCEPT !.op = "Fetch", !.pc = "locked",
                                                !.key = key]]
    /\ UNCHANGED << data, writer, lastReg, snap, stored >>
    /\ RegFrame

\* Fetch, lines 164-166.
Fetch(k) ==
    /\ reg[k].op = "Fetch"
    /\ readers' = readers - 1
    /\ lastReg' = [NoRet EXCEPT !.op = "Fetch", !.key = reg[k].key,
                                !.c = data[reg[k].key]]
    /\ reg' = [reg EXCEPT ![k] = NoReg]
    /\ UNCHANGED << data, writer, snap, stored >>
    /\ RegFrame

\* Store, line 170: the goroutine blocks in Lock().
StoreCall(k, key, c) ==
    /\ Free(k) /\ c \in created
    /\ reg' = [reg EXCEPT ![k] = [NoReg EXCEPT !.op = "Store", !.pc = "wlock",
                                                !.key = key, !.c = c]]
    /\ UNCHANGED << mapVars, lastReg, snap, stored >>
    /\ RegFrame

\* Store, line 170: Lock() returns.
StoreLock(k) ==
    /\ reg[k].op = "Store" /\ reg[k].pc = "wlock" /\ CanLock
    /\ writer' = TRUE
    /\ reg' = [reg EXCEPT ![k].pc = "locked"]
    /\ UNCHANGED << data, readers, lastReg, snap, stored >>
    /\ RegFrame

\* Store, lines 171-172.
Store(k) ==
    /\ reg[k].op = "Store" /\ reg[k].pc = "locked"
    /\ data' = [data EXCEPT ![reg[k].key] = reg[k].c]
    /\ stored' = [stored EXCEPT ![reg[k].key] = reg[k].c]
    /\ writer' = FALSE
    /\ lastReg' = [NoRet EXCEPT !.op = "Store", !.key = reg[k].key,
                                !.c = reg[k].c]
    /\ reg' = [reg EXCEPT ![k] = NoReg]
    /\ UNCHANGED << readers, snap >>
    /\ RegFrame

\* Clear, line 214: the goroutine blocks in Lock().
ClearCall(k) ==
    /\ Free(k)
    /\ reg' = [reg EXCEPT ![k] = [NoReg EXCEPT !.op = "Clear", !.pc = "wlock"]]
    /\ UNCHANGED << mapVars, lastReg, snap, stored >>
    /\ RegFrame

\* Clear, line 214: Lock() returns.
ClearLock(k) ==
    /\ reg[k].op = "Clear" /\ reg[k].pc = "wlock" /\ CanLock
    /\ writer' = TRUE
    /\ reg' = [reg EXCEPT ![k].pc = "locked"]
    /\ UNCHANGED << data, readers, lastReg, snap, stored >>
    /\ RegFrame

\* Clear, lines 215-217: one turn of the loop deletes one key.
ClearDelete(k) ==
    /\ reg[k].op = "Clear" /\ reg[k].pc = "locked"
    /\ \E key \in Stored : data' = [data EXCEPT ![key] = 0]
    /\ UNCHANGED << readers, writer, regVars >>
    /\ RegFrame

\* Clear, line 218: the loop is over.
Clear(k) ==
    /\ reg[k].op = "Clear" /\ reg[k].pc = "locked" /\ Stored = {}
    /\ writer' = FALSE
    /\ stored' = [key \in Keys |-> 0]
    /\ lastReg' = [NoRet EXCEPT !.op = "Clear"]
    /\ reg' = [reg EXCEPT ![k] = NoReg]
    /\ UNCHANGED << data, readers, snap >>
    /\ RegFrame

\* HasDirty, line 176.
HasDirtyLock(k) ==
    /\ Free(k) /\ CanRLock
    /\ readers' = readers + 1
    /\ reg' = [reg EXCEPT ![k] = [NoReg EXCEPT !.op = "HasDirty",
                                                !.pc = "locked", !.todo = Stored]]
    /\ UNCHANGED << data, writer, lastReg, snap, stored >>
    /\ RegFrame

\* goroutine k returns from HasDirty with the result d (deferred RUnlock).
HasDirtyReturn(k, d) ==
    /\ readers' = readers - 1
    /\ lastReg' = [NoRet EXCEPT !.op = "HasDirty", !.dirty = d,
                                !.stable = reg[k].stable]
    /\ reg' = [reg EXCEPT ![k] = NoReg]

\* A HasDirty that returns the flag of the first consumer it visits.
HasDirtyVisitFirst(k) ==
    /\ reg[k].op = "HasDirty"
    /\ \E key \in reg[k].todo :
          /\ StateCalled(data[key])
          /\ \E r \in StateResults(data[key]) : HasDirtyReturn(k, r.Dirty)
    /\ UNCHANGED << data, writer, snap, stored >>
    /\ UNCHANGED << liveVars, fixedVars, pureVars >>

\* HasDirty, lines 179-183: one turn of the loop, on any key not yet
\* visited (a map is ranged over in no fixed order).
HasDirtyVisit(k) ==
    /\ reg[k].op = "HasDirty"
    /\ \E key \in reg[k].todo :
          /\ StateCalled(data[key])
          /\ \E r \in StateResults(data[key]) :
                IF r.Dirty
                THEN HasDirtyReturn(k, TRUE)
                ELSE /\ reg' = [reg EXCEPT ![k].todo = @ \ {key}]
                     /\ UNCHANGED << readers, lastReg >>
    /\ UNCHANGED << data, writer, snap, stored >>
    /\ UNCHANGED << liveVars, fixedVars, pureVars >>

\* HasDirty, line 184: the loop is over.
HasDirty(k) ==
    /\ reg[k].op = "HasDirty" /\ reg[k].todo = {}
    /\ HasDirtyReturn(k, FALSE)
    /\ UNCHANGED << data, writer, snap, stored >>
    /\ RegFrame

\* Snapshot, lines 188-191.
SnapshotLock(k) ==
    /\ Free(k) /\ CanRLock
    /\ readers' = readers + 1
    /\ reg' = [reg EXCEPT ![k] = [NoReg EXCEPT !.op = "Snapshot",
                                                !.pc = "locked", !.todo = Stored]]
    /\ UNCHANGED << data, writer, lastReg, snap, stored >>
    /\ RegFrame

\* Snapshot, lines 192-194: one turn of the loop stores what State returns.
SnapshotVisit(k) ==
    /\ reg[k].op = "Snapshot"
    /\ \E key \in reg[k].todo :
          /\ StateCalled(data[key])
          /\ \E r \in StateResults(data[key]) :
                reg' = [reg EXCEPT ![k].todo = @ \ {key},
                                   ![k].part[key] =
                                       [c |-> data[key], Offset |-> r.Offset,
                                        PendingOffsets |-> r.PendingOffsets,
                                        Metadata |-> r.Metadata,
                                        Dirty |-> r.Dirty]]
    /\ UNCHANGED << mapVars, lastReg, snap, stored >>
    /\ UNCHANGED << liveVars, fixedVars, pureVars >>

\* Snapshot, line 195: the map is returned (deferred RUnlock).
Snapshot(k) ==
    /\ reg[k].op = "Snapshot" /\ reg[k].todo = {}
    /\ readers' = readers - 1
    /\ snap' = reg[k].part
    /\ lastReg' = [NoRet EXCEPT !.op = "Snapshot"]
    /\ reg' = [reg EXCEPT ![k] = NoReg]
    /\ UNCHANGED << data, writer, stored >>
    /\ RegFrame

\* The pending set a reader of the returned snapshot finds under the key:
\* State copies c.state (line 89), a copy that holds the same map
\* PendingOffsets as c.state.
SnapshotPending(key) == pending[snap[key].c]

\* Info, line 223.
InfoLock(k) ==
    /\ Free(k) /\ CanRLock
    /\ readers' = readers + 1
    /\ reg' = [reg EXCEPT ![k] = [NoReg EXCEPT !.op = "Info", !.pc = "locked"]]
    /\ UNCHANGED << data, writer, lastReg, snap, stored >>
    /\ RegFrame

\* Info, lines 224-232: the partitions of the topic, sorted.
Info(k) ==
    /\ reg[k].op = "Info"
    /\ readers' = readers - 1
    /\ lastReg' = [NoRet EXCEPT !.op = "Info", !.keys = Ascending(Stored)]
    /\ reg' = [reg EXCEPT ![k] = NoReg]
    /\ UNCHANGED << data, writer, snap, stored >>
    /\ RegFrame

\* ------------------------------------------------- one consumer, Loop and Close
InitClose ==
    /\ InitConsumersAt([c \in Consumers |-> <<0, 0>>])
    /\ created = {1}
    /\ data = [key \in Keys |-> 0]
    /\ pcmErr \in {[c \in Consumers |-> r] : r \in {"nil", "err"}}
    /\ stalls = [c \in Consumers |-> FALSE]
    /\ NoPureCall /\ NoRegistryCall

NextClose ==
    \/ \E c \in Consumers : StreamMsg(c)
    \/ \E c \in Consumers : StreamErr(c)
    \/ \E c \in Consumers : LoopRecvMsg(c)
    \/ \E c \in Consumers : LoopMsgsClosed(c)
    \/ \E c \in Consumers : LoopFwdMsg(c)
    \/ \E c \in Consumers : LoopRecvErr(c)
    \/ \E c \in Consumers : LoopErrsClosed(c)
    \/ \E c \in Consumers : LoopFwdErr(c)
    \/ \E c \in Consumers : LoopDying(c)
    \/ \E k \in Threads, c \in Consumers : CloseCall(k, c)
    \/ \E k \in Threads, c \in Consumers : CloseCheck(k, c)
    \/ \E k \in Threads, c \in Consumers : ClosePcm(k, c)
    \/ \E k \in Threads, c \in Consumers : CloseSetClosed(k, c)
    \/ \E k \in Threads, c \in Consumers : CloseDying(k, c)
    \/ \E k \in Threads, c \in Consumers : CloseWaitDead(k, c)

SpecClose == InitClose /\ [][NextClose]_vars

\* Fair scheduling of the Loop goroutine: the case <-c.dying, once ready, is
\* ready in every select Loop waits on, and Go's select picks among the ready
\* cases at random, so that case is eventually taken.
FairClose == SpecClose /\ \A c \in Consumers : WF_vars(LoopDying(c))

\* ------------------------------------------------- the registry and its Stop
\* Every consumer is stored in the registry and is in mid-life: its stream
\* has produced its messages and errors, of which the last may still be
\* queued in the stream's channel.  The close of one stream may stall.
InitStop ==
    /\ InitConsumersAt(
          [c \in Consumers |-> <<MaxMsgs, MaxErrs>>])
    /\ created = Consumers
    /\ data = [key \in Keys |-> key]
    /\ pcmErr \in {[c \in Consumers |-> r] : r \in {"nil", "err"}}
    /\ stalls \in {f \in [Consumers -> BOOLEAN] :
                      Cardinality({c \in Consumers : f[c]}) <= 1}
    /\ NoPureCall /\ NoRegistryCall

NextStop ==
    \/ \E c \in Consumers : LoopRecvMsg(c)
    \/ \E c \in Consumers : LoopMsgsClosed(c)
    \/ \E c \in Consumers : LoopFwdMsg(c)
    \/ \E c \in Consumers : LoopRecvErr(c)
    \/ \E c \in Consumers : LoopErrsClosed(c)
    \/ \E c \in Consumers : LoopFwdErr(c)
    \/ \E c \in Consumers : LoopDying(c)
    \/ \E k \in Threads : StopCall(k)
    \/ \E k \in Threads : StopReturn(k)
    \/ \E k \in Threads, c \in Consumers : CloseCheck(k, c)
    \/ \E k \in Threads, c \in Consumers : ClosePcm(k, c)
    \/ \E k \in Threads, c \in Consumers : CloseSetClosed(k, c)
    \/ \E k \in Threads, c \in Consumers : CloseDying(k, c)
    \/ \E k \in Threads, c \in Consumers : CloseWaitDead(k, c)

SpecStop == InitStop /\ [][NextStop]_vars

\* ------------------------------------------- one consumer, its offset state
\* A consumer built from an empty ledger; goroutines call its accessors.
InitState ==
    /\ InitConsumersAt([c \in Consumers |-> <<0, 0>>])
    /\ created = {1}
    /\ data = [key \in Keys |-> 0]
    /\ pcmErr = [c \in Consumers |-> "nil"]
    /\ stalls = [c \in Consumers |-> FALSE]
    /\ NoPureCall /\ NoRegistryCall

NextState ==
    \/ \E k \in Threads, c \in Consumers : StateLock(k, c)
    \/ \E k \in Threads, c \in Consumers, o \in Offsets :
          MarkCommittedLock(k, c, o)
    \/ \E k \in Threads, c \in Consumers, o \in Offsets, m \in Metas :
          MarkOffsetLock(k, c, o, m)
    \/ \E k \in Threads : State(k)
    \/ \E k \in Threads : MarkCommitted(k)
    \/ \E k \in Threads : MarkOffset(k)
    \/ \E c \in Consumers, o \in 0..MaxOffset : AddPendingOffset(c, o)
    \/ \E c \in Consumers, o \in 0..MaxOffset : RemovePendingOffset(c, o)

SpecState == InitState /\ [][NextState]_vars

\* ------------------------------------------- the functions without shared state
\* No consumer exists yet; one function is called on one choice of arguments.
InitPure ==
    /\ InitConsumersAt([c \in Consumers |-> <<0, 0>>])
    /\ created = {}
    /\ data = [key \in Keys |-> 0]
    /\ pcmErr = [c \in Consumers |-> "nil"]
    /\ stalls = [c \in Consumers |-> FALSE]
    /\ NoRegistryCall
    /\ args \in PureArgs
    /\ out = NoOut

NextPure ==
    \/ CallNextOffset
    \/ CallNewPartitionConsumer
    \/ CallDiff

SpecPure == InitPure /\ [][NextPure]_vars

\* ------------------------------------------------ the registry and its consumers
\* Every consumer exists, built from an empty ledger; the registry is empty.
\* Goroutines call the methods of the registry and the accessors of the
\* consumers.
InitMap ==
    /\ InitConsumersAt([c \in Consumers |-> <<0, 0>>])
    /\ created = Consumers
    /\ data = [key \in Keys |-> 0]
    /\ pcmErr = [c \in Consumers |-> "nil"]
    /\ stalls = [c \in Consumers |-> FALSE]
    /\ NoPureCall /\ NoRegistryCall

NextMap ==
    \/ \E k \in Threads, key \in Keys : FetchLock(k, key)
    \/ \E k \in Threads : Fetch(k)
    \/ \E k \in Threads, key \in Keys, c \in Consumers : StoreCall(k, key, c)
    \/ \E k \in Threads : StoreLock(k)
    \/ \E k \in Threads : Store(k)
    \/ \E k \in Threads : ClearCall(k)
    \/ \E k \in Threads : ClearLock(k)
    \/ \E k \in Threads : ClearDelete(k)
    \/ \E k \in Threads : Clear(k)
    \/ \E k \in Threads : HasDirtyLock(k)
    \/ \E k \in Threads : HasDirtyVisit(k)
    \/ \E k \in Threads : HasDirty(k)
    \/ \E k \in Threads : InfoLock(k)
    \/ \E k \in Threads : Info(k)
    \/ \E k \in Threads, c \in Consumers : MarkCommittedLock(k, c, 0)
    \/ \E k \in Threads, c \in Consumers : MarkOffsetLock(k, c, 0, << >>)
    \/ \E k \in Threads : MarkCommitted(k)
    \/ \E k \in Threads : MarkOffset(k)

SpecMap == InitMap /\ [][NextMap]_vars

\* ------------------------------------------------ snapshots of the registry
\* Every consumer exists and is stored under its key.  The first goroutine
\* takes snapshots and changes the registry (it stores a consumer back under
\* its key, it clears the registry); the other goroutines call the accessors
\* of the first consumer.
InitSnap ==
    /\ InitConsumersAt([c \in Consumers |-> <<0, 0>>])
    /\ created = Consumers
    /\ data = [key \in Keys |-> key]
    /\ pcmErr = [c \in Consumers |-> "nil"]
    /\ stalls = [c \in Consumers |-> FALSE]
    /\ NoPureCall /\ NoRegistryCall

NextSnap ==
    \/ SnapshotLock(1)
    \/ SnapshotVisit(1)
    \/ Snapshot(1)
    \/ \E key \in Keys : StoreCall(1, key, key)
    \/ StoreLock(1)
    \/ Store(1)
    \/ ClearCall(1)
    \/ ClearLock(1)
    \/ ClearDelete(1)
    \/ Clear(1)
    \/ \E k \in Threads \ {1} : StateLock(k, 1)
    \/ \E k \in Threads \ {1} : MarkCommittedLock(k, 1, 0)
    \/ \E k \in Threads \ {1}, m \in {<< >>, <<"1", ",">>} :
          MarkOffsetLock(k, 1, 0, m)
    \/ \E k \in Threads \ {1} : State(k)
    \/ \E k \in Threads \ {1} : MarkCommitted(k)
    \/ \E k \in Threads \ {1} : MarkOffset(k)
    \/ AddPendingOffset(1, 0)
    \/ RemovePendingOffset(1, 0)

SpecSnap == InitSnap /\ [][NextSnap]_vars

\* ------------------------------------- the registry, its Stop and the consumers
\* The first consumer exists, its Loop running, and is stored under the
\* first key.  The first goroutine calls the methods of the registry; the
\* other goroutines call the accessors and Close of the consumer, and Store
\* and Clear of the registry.
InitAll ==
    /\ InitConsumersAt([c \in Consumers |-> <<0, 0>>])
    /\ created = {1}
    /\ data = [key \in Keys |-> IF key = 1 THEN 1 ELSE 0]
    /\ pcmErr = [c \in Consumers |-> "nil"]
    /\ stalls = [c \in Consumers |-> FALSE]
    /\ NoPureCall /\ NoRegistryCall

\* A step of a Close call of goroutine k on consumer c, made by the
\* application or by the goroutine Stop started for c.
CloseStep(k, c) ==
    \/ CloseCheck(k, c)
    \/ ClosePcm(k, c)
    \/ CloseSetClosed(k, c)
    \/ CloseDying(k, c)
    \/ CloseWaitDead(k, c)

\* A step of the registry operation goroutine k is inside of.
RegStep(k) ==
    \/ Fetch(k)
    \/ StoreLock(k)
    \/ Store(k)
    \/ ClearLock(k)
    \/ ClearDelete(k)
    \/ Clear(k)
    \/ HasDirtyVisit(k)
    \/ HasDirty(k)
    \/ SnapshotVisit(k)
    \/ Snapshot(k)
    \/ Info(k)
    \/ StopReturn(k)

\* A step of the accessor goroutine k is inside of.
AccStep(k) ==
    \/ State(k)
    \/ MarkCommitted(k)
    \/ MarkOffset(k)

\* A step of the Loop of consumer c when its stream has nothing to deliver.
LoopStep(c) ==
    \/ LoopMsgsClosed(c)
    \/ LoopErrsClosed(c)
    \/ LoopDying(c)

NextAll ==
    \/ FetchLock(1, 1)
    \/ HasDirtyLock(1)
    \/ SnapshotLock(1)
    \/ InfoLock(1)
    \/ StopCall(1)
    \/ \E k \in Threads : StoreCall(k, 1, 1)
    \/ \E k \in Threads : ClearCall(k)
    \/ \E k \in Threads \ {1} : StateLock(k, 1)
    \/ \E k \in Threads \ {1} : MarkCommittedLock(k, 1, 0)
    \/ \E k \in Threads \ {1} : MarkOffsetLock(k, 1, 0, << >>)
    \/ \E k \in Threads \ {1} : CloseCall(k, 1)
    \/ \E k \in Threads : RegStep(k)
    \/ \E k \in Threads : AccStep(k)
    \/ \E k \in Threads, c \in Consumers : CloseStep(k, c)
    \/ \E c \in Consumers : LoopStep(c)

SpecAll == InitAll /\ [][NextAll]_vars

\* Fair scheduling: a goroutine that is inside an operation and can again
\* and again take its next step takes it (sync.Mutex and sync.RWMutex hand
\* the lock to a goroutine that keeps waiting for it), and the Loop takes a
\* case of its select that stays ready.
FairAll ==
    /\ SpecAll
    /\ \A k \in Threads : SF_vars(RegStep(k)) /\ SF_vars(AccStep(k))
    /\ \A k \in Threads, c \in Consumers : SF_vars(CloseStep(k, c))
    /\ \A c \in Consumers : WF_vars(LoopStep(c))

\* ----------------------------------------------------------------- properties
\* The messages (or errors) a stream has produced, in its order.
StreamOrder(n) == [i \in 1..n |-> i]

IsPrefix(s, t) == Len(s) <= Len(t) /\ \A i \in 1..Len(s) : s[i] = t[i]

\* The messages Loop has received from the stream so far.
Received(c) == produced[c][1] - Len(pcmMsgs[c])

\* C1: whenever a Close call on a consumer has returned, the consumer's Loop
\* has exited, dead is closed, and nothing was sent after that return.
C1_CloseReturnsAfterLoopExit ==
    \A c \in created :
        CloseReturned(c) =>
            dead[c] /\ loopPc[c] = "exited" /\ ~lateSends[c]

\* C2: a second Close call made by a goroutine after its first one returned,
\* no other goroutine closing the consumer, returns what the first returned,
\* and the stream was closed and dying signalled once only.
C2_SecondCloseSameResult ==
    \A k \in Threads, c \in created :
        ( /\ Len(rets[k][c]) >= 2
          /\ \A j \in Threads \ {k} :
                closePc[j][c] = "idle" /\ rets[j][c] = << >> )
        => /\ rets[k][c][2] = rets[k][c][1]
           /\ pcmCloses[c] = 1 /\ dying[c] = 1

\* C3: when a Stop call has returned, every consumer the registry holds is
\* closed and its Loop has exited.
C3_StopReturnsAfterAllLoopsExit ==
    \A k \in Threads :
        stopPc[k] = "returned" =>
            \A c \in Held : closed[c] /\ dead[c] /\ loopPc[c] = "exited"

\* C4: during a Stop, the Close of a held consumer whose stream close does
\* not stall never ends without completing (a goroutine dead of a panic can
\* never complete), and the Stop does not return while the Close of a held
\* consumer has not completed.
C4_OtherClosesComplete ==
    \A k \in Threads :
        /\ stopPc[k] = "waiting" =>
              \A c \in Held : ~stalls[c] => closePc[k][c] # "panic"
        /\ stopPc[k] = "returned" =>
              \A c \in Held : closePc[k][c] = "idle" /\ rets[k][c] # << >>

\* C5: once dying is signalled, the Loop exits and closes dead, wherever it
\* waits: on the three-way select or on a send no one receives.
C5_DyingLeadsToDead ==
    \A c \in Consumers : (c \in created /\ dying[c] > 0) ~> dead[c]

\* C5 witness: the Loop has exited on dying while a received message was held
\* for a send (the message was never delivered).
C5_Witness ==
    /\ dying[1] > 0 /\ dead[1] /\ loopPc[1] = "exited"
    /\ Received(1) > Len(delivered[1])

\* C6: the messages delivered for a partition are at every moment a prefix of
\* what the stream produced (stream order, no duplicate, no gap); at most one
\* received message is undelivered, and one is dropped only on dying.
C6_DeliveredInStreamOrder ==
    \A c \in created :
        /\ IsPrefix(delivered[c], StreamOrder(produced[c][1]))
        /\ Received(c) - Len(delivered[c]) \in
              (IF loopPc[c] = "fwdMsg" THEN {1}
               ELSE IF loopPc[c] = "exited" /\ dying[c] > 0 THEN {0, 1}
               ELSE {0})

\* C6 witness: every message of the stream was delivered, more than one.
C6_Witness ==
    /\ MaxMsgs > 1
    /\ delivered[1] = StreamOrder(MaxMsgs)

\* C7: a step in which the Loop exits is taken only with the stream closed or
\* dying signalled, and the errors delivered are those of the stream, in order.
C7_ErrorsNeverEndLoop ==
    /\ [][\A c \in created :
            (loopPc[c] # "exited" /\ loopPc'[c] = "exited")
                => (~pcmOpen[c] \/ dying[c] > 0)]_vars
    /\ [](\A c \in created :
            IsPrefix(deliveredErrs[c], StreamOrder(produced[c][2])))

\* C7 witness: every error of the stream was forwarded and the Loop is back
\* on its select, the stream open and dying not signalled.
C7_Witness ==
    /\ Len(deliveredErrs[1]) = MaxErrs /\ MaxErrs > 0
    /\ loopPc[1] = "select" /\ pcmOpen[1] /\ dying[1] = 0

\* C8: a MarkOffset(o, m) with o at most the confirmed offset changes neither
\* the offset, the metadata, the pending set nor dirty, and no step of any
\* accessor decreases the confirmed offset.
C8_MarkOffsetMonotonic ==
    /\ [][\A c \in created : offset'[c] >= offset[c]]_vars
    /\ [][\A k \in Threads :
            ( /\ acc[k].op = "MarkOffset" /\ acc'[k] = NoAcc
              /\ acc[k].o <= offset[acc[k].c] )
            => /\ offset'[acc[k].c] = offset[acc[k].c]
               /\ metadata'[acc[k].c] = metadata[acc[k].c]
               /\ pending'[acc[k].c] = pending[acc[k].c]
               /\ dirty'[acc[k].c] = dirty[acc[k].c]]_vars

\* C8 witness: the last accessor call was a MarkOffset with non-empty metadata
\* and an offset not above the confirmed one; metadata is still empty and
\* dirty still false.
C8_Witness ==
    /\ lastAcc.op = "MarkOffset" /\ lastAcc.m # << >>
    /\ offset[1] >= 0 /\ lastAcc.o <= offset[1]
    /\ metadata[1] = << >> /\ ~dirty[1]

\* C9: whenever the ledger of a consumer was updated (offset advanced,
\* pending set changed) and no MarkCommitted has completed since, every state
\* State() may return is dirty.  (Any MarkCommitted call counts as the
\* acknowledgement, whatever its offset.)
C9_UnackedUpdateIsDirty ==
    \A c \in created :
        (unacked[c] /\ mutex[c] = 0) => \A r \in StateResults(c) : r.Dirty

\* C10: the step of MarkCommitted(o) clears dirty exactly when o is the
\* confirmed offset or the stored metadata is non-empty, never sets it, and
\* changes nothing else; with empty metadata and a newer confirmed offset it
\* leaves dirty true.
C10_MarkCommittedClearsDirty ==
    [][\A k \in Threads :
         (acc[k].op = "MarkCommitted" /\ acc'[k] = NoAcc) =>
            LET c == acc[k].c
                o == acc[k].o
            IN  /\ (dirty[c] /\ ~dirty'[c]) <=>
                      (dirty[c] /\ (o = offset[c] \/ metadata[c] # << >>))
                /\ ~dirty[c] => ~dirty'[c]
                /\ (metadata[c] = << >> /\ o < offset[c] /\ dirty[c]) => dirty'[c]
                /\ offset'[c] = offset[c]
                /\ metadata'[c] = metadata[c]
                /\ pending'[c] = pending[c]]_vars

\* C10 witness: the last accessor call was the MarkCommitted of an offset
\* below the confirmed one, metadata is empty, and dirty is still true.
C10_Witness ==
    /\ lastAcc.op = "MarkCommitted" /\ lastAcc.o >= 0
    /\ lastAcc.o < offset[1] /\ metadata[1] = << >> /\ dirty[1]
    /\ \A k \in Threads : acc[k] = NoAcc

\* C11: a HasDirty call returns false on an empty registry; when no dirty
\* flag changed while it ran, it returns true exactly if some held consumer is
\* dirty; and when it returns true some held consumer is dirty.
C11_HasDirtyIffSomeDirty ==
    [][\A k \in Threads :
         (reg[k].op = "HasDirty" /\ reg'[k].op = "none") =>
            /\ Held = {} => ~lastReg'.dirty
            /\ reg[k].stable =>
                  (lastReg'.dirty <=> \E c \in Held : dirty[c])
            /\ lastReg'.dirty => \E c \in Held : dirty'[c]]_vars

\* C11 witness: the registry holds two consumers, the last accessor call was
\* a MarkOffset that made one of them dirty, the other is clean, and the
\* HasDirty call that followed returned true.
C11_Witness ==
    /\ lastReg.op = "HasDirty" /\ lastReg.dirty /\ lastReg.stable
    /\ lastAcc.op = "MarkOffset"
    /\ Held = Consumers
    /\ Cardinality({c \in Consumers : dirty[c]}) = 1
    /\ \A k \in Threads : reg[k].op = "none" /\ acc[k] = NoAcc

\* C12: every write of a consumer's confirmed offset, pending set, metadata or
\* dirty flag is made by the goroutine that holds the consumer's mutex.
C12_LedgerWrittenUnderMutex ==
    [][\A c \in created :
         ( \/ offset'[c] # offset[c] \/ pending'[c] # pending[c]
           \/ metadata'[c] # metadata[c] \/ dirty'[c] # dirty[c] )
         => (mutex[c] # 0 /\ acc[mutex[c]].c = c /\ acc'[mutex[c]] = NoAcc)]_vars

\* C13: for a ledger with a non-empty pending set, NextOffset(f) returns a
\* member of the pending set when the confirmed offset is above -1, and f
\* when the confirmed offset is -1.
C13_NextOffsetOfPending ==
    (out.done /\ args.fn = "NextOffset" /\ args.PendingOffsets # {}) =>
        IF args.Offset > -1
        THEN out.val \in args.PendingOffsets
        ELSE out.val = args.fallback

\* C13 as stated: for every ledger with a non-empty pending set, whatever its
\* confirmed offset, NextOffset(f) returns a member of the pending set.
C13_NextOffsetAlwaysOfPending ==
    (out.done /\ args.fn = "NextOffset" /\ args.PendingOffsets # {}) =>
        out.val \in args.PendingOffsets

\* C13 witness: NextOffset returned a member of a pending set of more than one
\* offset that is not its smallest member.
C13_Witness ==
    /\ out.done /\ args.fn = "NextOffset" /\ args.Offset > -1
    /\ out.val \in args.PendingOffsets
    /\ \E x \in args.PendingOffsets : x < out.val

\* C14: the construction requests the stream at NextOffset(fallback); on an
\* offset-out-of-range answer it makes exactly one more request, at the
\* fallback offset, with the confirmed offset reset to -1, and returns what
\* that request answers; on any other answer it makes no other request.  A
\* consumer is returned exactly when the error returned is nil.
C14_OutOfRangeRetriedOnce ==
    (out.done /\ args.fn = "newPartitionConsumer") =>
        /\ out.requests # << >>
        /\ out.requests[1] \in
              NextOffset(args.Offset, args.PendingOffsets, args.fallback)
        /\ IF args.resp[1] = "ErrOffsetOutOfRange"
           THEN /\ out.requests = <<out.requests[1], args.fallback>>
                /\ out.err = args.resp[2]
                /\ out.consumer => out.Offset = -1
           ELSE /\ Len(out.requests) = 1
                /\ out.err = args.resp[1]
                /\ out.consumer => out.Offset = args.Offset
        /\ out.consumer <=> out.err = "nil"

\* C14 as stated: in addition, the construction never returns an
\* offset-out-of-range error.
C14_OutOfRangeNeverSurfaced ==
    (out.done /\ args.fn = "newPartitionConsumer") =>
        /\ C14_OutOfRangeRetriedOnce
        /\ out.err # "ErrOffsetOutOfRange"

\* C14 witness: a ledger with a confirmed offset was out of range, the retry
\* succeeded, and the consumer holds the confirmed offset -1.
C14_Witness ==
    /\ out.done /\ args.fn = "newPartitionConsumer"
    /\ args.Offset > -1 /\ args.resp = <<"ErrOffsetOutOfRange", "nil">>
    /\ out.consumer /\ out.Offset = -1 /\ Len(out.requests) = 2

\* C15: the pending set found under a key of the map Snapshot returned is
\* the one State returned when the snapshot was taken.
C15_SnapshotImmutable ==
    \A key \in Keys :
        snap[key].c # 0 => SnapshotPending(key) = snap[key].PendingOffsets

\* C16: every state State() may return is consistent: the offsets its
\* metadata encodes are its pending set.
C16_StateConsistent ==
    \A c \in created :
        mutex[c] = 0 =>
            \A r \in StateResults(c) :
                Deserialize(r.Metadata) = r.PendingOffsets

\* C17: p.Diff(o) is the elements of p that are not in o, in p's order.
C17_DiffIsDifference ==
    (out.done /\ args.fn = "Diff") =>
        out.res = SelectSeq(args.p,
                     LAMBDA x : \A i \in 1..Len(args.o) : args.o[i] # x)

\* C17 witness: the Diff of a slice with some of its elements, the first
\* excluded, left the others; the Diff of it with itself would be empty.
C17_Witness ==
    /\ out.done /\ args.fn = "Diff"
    /\ Len(args.p) = MaxElem + 1 /\ Len(args.o) = 2
    /\ Len(out.res) = MaxElem - 1 /\ out.res[1] = 0
    /\ Diff(args.p, args.p) = << >> /\ Diff(<< >>, args.o) = << >>

\* C18: Fetch returns the consumer the last completed Store stored under the
\* key since the last completed Clear (none if there is none) and changes
\* nothing; Store changes the entry of its key only; Clear leaves no entry.
C18_FetchReturnsLastStored ==
    [][\A k \in Threads :
         /\ (reg[k].op = "Fetch" /\ reg'[k].op = "none") =>
               /\ lastReg'.c = stored[reg[k].key]
               /\ data' = data /\ stored' = stored
         /\ (reg[k].op = "Store" /\ reg'[k].op = "none") =>
               /\ data'[reg[k].key] = reg[k].c
               /\ \A key \in Keys \ {reg[k].key} : data'[key] = data[key]
         /\ (reg[k].op = "Clear" /\ reg'[k].op = "none") =>
               \A key \in Keys : data'[key] = 0]_vars

\* C18 witness: Fetch returned the consumer stored under its key after an
\* earlier Store under that key, while another goroutine waits to clear the
\* registry.
C18_Witness ==
    /\ lastReg.op = "Fetch" /\ lastReg.key = 1 /\ lastReg.c = NumConsumers
    /\ NumConsumers > 1
    /\ \E k \in Threads : reg[k].op = "Clear" /\ reg[k].pc = "wlock"

\* C19: no consumer's dying channel is closed twice, no stream is closed
\* twice, and no close of a closed channel is attempted.
C19_ClosedAtMostOnce ==
    /\ ~panicked
    /\ \A c \in created : dying[c] <= 1 /\ pcmCloses[c] <= 1

\* Goroutine k is inside an operation: a registry method, a Stop (and the
\* Close calls it started), an accessor or a Close.
Busy(k) ==
    \/ reg[k].op # "none" \/ acc[k] # NoAcc \/ stopPc[k] = "waiting"
    \/ \E c \in Consumers : closePc[k][c] # "idle"

\* C20: every operation a goroutine has started completes (a registry
\* method, a Stop, an accessor, a Close); a goroutine that takes the registry
\* lock holds no consumer mutex; and the content of the registry does not
\* change while a Stop is waiting.
C20_EveryOperationCompletes ==
    /\ \A k \in Threads : Busy(k) ~> ~Busy(k)
    /\ [][\A k \in Threads :
            (reg'[k].pc = "locked" /\ reg[k].pc # "locked") =>
                \A c \in Consumers : mutex[c] # k]_vars
    /\ [][(\E k \in Threads : stopPc[k] = "waiting") => data' = data]_vars

=============================================================================
